---- MODULE Spec2Model ----
(***************************************************************************)
(* cimir: the immediate-mode layout and interaction engine of Renderer     *)
(* (src/src/renderer.rs) driven once per frame by call_render              *)
(* (src/src/application.rs).                                               *)
(*                                                                         *)
(* f32 coordinates are modelled as integers: every value used below is a   *)
(* small integer, which f32 represents and adds exactly.                   *)
(*                                                                         *)
(* The render callback is application code.  It is modelled as a           *)
(* nondeterministic sequence of Renderer calls; a call that takes a        *)
(* closure (row, col, hitbox, set_cursor, move_cursor, animate) is split   *)
(* into the part before the closure runs (...Open) and the part after it   *)
(* returns (...Close), with the open calls kept on the stack ctl.          *)
(***************************************************************************)
EXTENDS Integers, Sequences, FiniteSets, TLC

VARIABLES
    pc,            \* "Idle" | "FrameBuilding" | "Panicked": position of the event loop
    cursor,        \* Renderer.cursor
    viewport,      \* Renderer.viewport
    layout_stack,  \* Renderer.layout_stack
    hitbox_stack,  \* Renderer.hitbox_stack
    hitboxes,      \* Renderer.hitboxes: id -> Hitbox
    hot_id,        \* Renderer.hot_id
    active_id,     \* Renderer.active_id
    mouse,         \* Renderer.mouse
    animations,    \* Renderer.animations: id -> Animation
    now,           \* the monotonic clock read by Instant::now(), in milliseconds
    ctl,           \* the closure-taking calls that are open, innermost last
    calls,         \* number of Renderer calls the render callback made this frame
    ret,           \* history: the call that returned in the last step, if any
    order,         \* history: ids of the hitboxes finalized in this frame, in order of first insertion
    drawn,         \* history: id -> the hitbox last finalized under id in this frame
    prev_order,    \* history: order at the end of the previous frame
    prev_table,    \* history: drawn at the end of the previous frame
    probe,         \* last application of Hitbox::contains_pos, if any
    input,         \* Renderer.input: the character queue
    keys,          \* Renderer.keys: the key queue
    arrived,       \* history: the characters and keys delivered since the last frame ended
    consumed,      \* history: the consumers the render callback called in this frame
    anim_hist,     \* history: id -> first animate call, last creation or reset, progress seen
    frame_time,    \* Renderer.frame_time
    frame_nanos,   \* wall-clock time since Renderer.frame_start, in nanoseconds
    last_frame,    \* history: the wall-clock time the last completed frame took, if any
    hot_start,     \* history: hot_id as call_render resolved it for the running frame
    value,         \* TextInputState.value of the application's text field
    control_flow,  \* the ControlFlow of the event loop
    dispatched     \* history: the last event handled and what its handlers returned

vars == <<pc, cursor, viewport, layout_stack, hitbox_stack, hitboxes, hot_id,
          active_id, mouse, animations, now, ctl, calls, ret, order, drawn,
          prev_order, prev_table, probe, input, keys, arrived, consumed,
          anim_hist, frame_time, frame_nanos, last_frame, hot_start, value,
          control_flow, dispatched>>

\* The application's text field and the event loop.
app == <<value, control_flow, dispatched>>

\* The event queues and their history.
queues == <<input, keys, arrived, consumed>>

\* The frame clock, and the history of the frame.
frame_vars == <<frame_time, frame_nanos, last_frame, hot_start>>

(***************************************************************************)
(* Bounds of the model.                                                    *)
(***************************************************************************)
\* Renderer calls per frame of the general application.
MaxCalls == 3
\* Renderer calls per frame of the application that only flows shapes.
MaxFlowCalls == 6
\* Renderer calls per frame of the application that draws hitboxes.
MaxHitCalls == 4
\* Closure-taking calls open at once.
MaxDepth == 2

\* Sizes of the rectangles and textures the application draws.
ShapeSizes == {<<20, 20>>, <<20, 10>>, <<10, 20>>}
\* Sizes of the rectangles drawn by the application that draws hitboxes.
HitSizes == {<<20, 20>>}
\* Amounts passed to space (a negative amount moves the cursor back).
Spaces == {-5, 10}
\* Hitbox and animation ids the application uses.
Ids == {1, 2}
\* Arguments of set_cursor and move_cursor.
SetCursorArgs == {<<5, 5>>, <<-80, 0>>}
MoveCursorArgs == {<<0, -2>>}
\* Renderer calls per frame of the application that draws labels.
MaxLabelCalls == 3
\* Renderer calls per frame of the application that shows the frame rate.
MaxFpsCalls == 2
\* Wall-clock times a frame can take, some of them longer than 2^32 ns.
FrameNanos == {[wraps |-> 0, rem |-> 1], [wraps |-> 0, rem |-> 3],
               [wraps |-> 0, rem |-> 16000000], [wraps |-> 0, rem |-> 1000000000],
               [wraps |-> 0, rem |-> 1000000001], [wraps |-> 1, rem |-> 0],
               [wraps |-> 1, rem |-> 1], [wraps |-> 1, rem |-> 500]}
\* Renderer calls per frame of the application that activates hitboxes.
MaxActiveCalls == 2
\* Renderer calls per frame of the application that is clicked on.
MaxMouseCalls == 2
\* Mouse buttons the window reports.
Buttons == {"Left", "Right", "Middle"}
\* Renderer calls per frame of the application that reads the event queues.
MaxInputCalls == 3
\* Events queued between two frames, per queue.
MaxQueue == 2
\* Characters and keys the window delivers.
Chars == {"a", "b"}
\* Key codes of the window system (VirtualKeyCode); Left is the left arrow.
VirtualKeyCodes == {"Back", "Return", "Left"}
\* ControlFlow, and what a handler of the application can return.
Directives == {"Poll", "Wait", "Exit"}
Returns == {<<>>} \cup {<<d>> : d \in Directives}
\* Characters delivered to the text field: a letter, a blank and a character
\* that is neither alphanumeric nor whitespace; all have a glyph in the font.
TextChars == {"a", " ", "!"}
Alphanumeric == {"a", "b", "1"}
Whitespace == {" "}
\* Key codes delivered to the text field.
TextKeyCodes == {"Back", "Return"}
\* Ids of text_input calls, and the largest length of the field's value.
TextIds == {1}
MaxTextCalls == 2
MaxValue == 3
\* Events whose arm changes nothing of the renderer state modelled here.
PlainEvents == {"CloseRequested", "Resized", "MousePressed", "ModifiersChanged", "Other"}
KeyStates == {"Pressed", "Released"}
\* The events with an arm of their own that SpecEvents delivers.
EventPoints == {<<10, 10>>}
EventButtons == {"Left", "Middle"}
EventChars == {"a"}
EventKeyCodes == {<<>>, <<"Back">>, <<"Left">>}
\* Renderer calls per frame of the application that relocates the cursor.
MaxCursorCalls == 4
\* Coordinates passed to set_cursor by that application, of either sign.
CursorCoords == {-80, -10, 0, 5}
\* Pointer positions delivered by CursorMoved.
Points == {<<0, 0>>, <<5, 5>>, <<5, 20>>, <<25, 25>>, <<26, 10>>}
\* Inner size of the window.
WindowSizes == {<<100, 60>>}

(***************************************************************************)
(* Option, Vec                                                             *)
(***************************************************************************)
None == <<>>
Some(v) == <<v>>

Last(s) == s[Len(s)]
Pop(s) == SubSeq(s, 1, Len(s) - 1)
SetLast(s, v) == [s EXCEPT ![Len(s)] = v]

(***************************************************************************)
(* Layout, Hitbox                                                          *)
(***************************************************************************)
Row(height, x, y) == [tag |-> "Row", height |-> height, x |-> x, y |-> y]
Col(width, x, y) == [tag |-> "Col", width |-> width, x |-> x, y |-> y]

Hitbox(x, y, width, height) == [x |-> x, y |-> y, height |-> height, width |-> width]

contains_pos_strict(hb, x, y) ==
    LET left == hb.x
        right == left + hb.width
        top == hb.y
        bottom == top + hb.height
    IN (left <= x /\ x < right) /\ (top <= y /\ y < bottom)

contains_pos(hb, x, y) ==
    LET left == hb.x
        right == left + hb.width
        top == hb.y
        bottom == top + hb.height
    IN (left <= x /\ x <= right) /\ (top <= y /\ y <= bottom)

(***************************************************************************)
(* Animation (src/src/animation.rs)                                        *)
(***************************************************************************)
Linear(from, to) == [from |-> from, to |-> to]

\* Transition::calculate, with progress given as the fraction p[1] / p[2].  The
\* durations and transitions used below make d * p[1] a multiple of p[2], so
\* that the quotient is the value the f32 arithmetic gives.
calculate(t, p) ==
    LET d == t.to - t.from
    IN t.from + (d * p[1]) \div p[2]

get_done(t) == t.to

Animation_new(duration, transitions) ==
    [start_time |-> now, duration |-> duration, transitions |-> transitions,
     done |-> FALSE]

Progress_unclamped(a) ==
    LET elapsed == now - a.start_time
    IN IF a.duration = 0 THEN <<1, 1>> ELSE <<elapsed, a.duration>>

\* elapsed / duration clamped by min(1.0); 0/0 is NaN and x/0 is infinite, and
\* f32::min of either with 1.0 is 1.0.
Progress(a) ==
    LET elapsed == now - a.start_time
    IN IF a.duration = 0 \/ elapsed >= a.duration
       THEN <<1, 1>>
       ELSE <<elapsed, a.duration>>

Animation_animate_never_done(a) ==
    IF a.done
    THEN [anim |-> a,
          result |-> [i \in 1..Len(a.transitions) |-> get_done(a.transitions[i])]]
    ELSE [anim |-> a,
          result |-> [i \in 1..Len(a.transitions) |->
                         calculate(a.transitions[i], Progress(a))]]

\* Animation::animate: the animation afterwards and the values returned.
Animation_animate(a) ==
    IF a.done
    THEN [anim |-> a,
          result |-> [i \in 1..Len(a.transitions) |-> get_done(a.transitions[i])]]
    ELSE LET progress == Progress(a)
         IN [anim |-> [a EXCEPT !.done = (progress = <<1, 1>>)],
             result |-> [i \in 1..Len(a.transitions) |->
                            calculate(a.transitions[i], progress)]]

Animation_reset_clock_only(a) == [a EXCEPT !.start_time = now]

\* Animation::reset
Animation_reset(a) == [a EXCEPT !.done = FALSE, !.start_time = now]

\* Animations the application asks for: <<duration, transitions>>.
AnimIds == {7}
AnimArgs == {<<100, <<Linear(0, 40)>>>>,
             <<100, <<Linear(0, 40), Linear(10, 0)>>>>}
\* Animations of the application that animates while time passes, one of them
\* with a duration of zero, and the ids it resets, one of them never animated.
ResetIds == {7, 8}
AnimSpecArgs == {<<4, <<Linear(0, 40)>>>>,
                 <<4, <<Linear(0, 40), Linear(8, 0)>>>>,
                 <<0, <<Linear(0, 40)>>>>}
\* Renderer calls per frame of that application.
MaxAnimCalls == 3
\* Milliseconds the clock advances by between two readings, and its last value.
TimeSteps == {1, 4}
MaxTime == 9

(***************************************************************************)
(* HashMap                                                                 *)
(***************************************************************************)
EmptyMap == [i \in {} |-> 0]
Insert(m, k, v) == [i \in (DOMAIN m) \cup {k} |-> IF i = k THEN v ELSE m[i]]

(***************************************************************************)
(* Hit testing                                                             *)
(***************************************************************************)
\* Renderer::get_hit: the first entry, in the iteration order of the HashMap,
\* whose hitbox contains the position.  std::collections::HashMap iterates in
\* an order that depends on its hasher's random keys, not on the order of
\* insertion, so any containing entry may be the first: the set of the values
\* get_hit can return.
get_hit(table, x, y) ==
    LET hit == {id \in DOMAIN table : contains_pos(table[id], x, y)}
    IN IF hit = {} THEN {None} ELSE {Some(id) : id \in hit}

is_active(id) == active_id # None /\ active_id[1] = id
is_hot_rederived(id) == Some(id) \in get_hit(hitboxes, mouse.x, mouse.y)

is_hot(id) == hot_id # None /\ hot_id[1] = id

(***************************************************************************)
(* Renderer::handle_new_shape                                              *)
(***************************************************************************)
RowHeight_last(height, shape_height) == shape_height

\* Row arm: the accumulated height after a shape of shape_height.
RowHeight(height, shape_height) ==
    IF shape_height > height THEN shape_height ELSE height

ColWidth_last(width, shape_width) == shape_width

\* Col arm: the accumulated width after a shape of shape_width.
ColWidth(width, shape_width) ==
    IF shape_width > width THEN shape_width ELSE width

HitboxGrow_extent(hitbox, shape_width, shape_height) ==
    LET width == (cursor[1] + shape_width) - hitbox.x
        height == (cursor[2] + shape_height) - hitbox.y
    IN [hitbox EXCEPT !.width = IF width > @ THEN width ELSE @,
                      !.height = IF height > @ THEN height ELSE @]

\* The innermost open hitbox after a shape of the given size.
HitboxGrow(hitbox, shape_width, shape_height) ==
    LET width == shape_width
        height == shape_height
    IN [hitbox EXCEPT !.width = IF width > @ THEN width ELSE @,
                      !.height = IF height > @ THEN height ELSE @]

shape_cursor(shape_width, shape_height) ==
    IF Last(layout_stack).tag = "Row"
    THEN <<cursor[1] + shape_width, cursor[2]>>
    ELSE <<cursor[1], cursor[2] + shape_height>>

shape_layout(shape_width, shape_height) ==
    LET top == Last(layout_stack)
    IN IF top.tag = "Row"
       THEN SetLast(layout_stack, [top EXCEPT !.height = RowHeight(@, shape_height)])
       ELSE SetLast(layout_stack, [top EXCEPT !.width = ColWidth(@, shape_width)])

shape_hitbox_stack(shape_width, shape_height) ==
    IF hitbox_stack # <<>>
    THEN SetLast(hitbox_stack, HitboxGrow(Last(hitbox_stack), shape_width, shape_height))
    ELSE hitbox_stack

handle_new_shape(shape_width, shape_height) ==
    /\ cursor' = shape_cursor(shape_width, shape_height)
    /\ layout_stack' = shape_layout(shape_width, shape_height)
    /\ hitbox_stack' = shape_hitbox_stack(shape_width, shape_height)

(***************************************************************************)
(* The open closure-taking calls, and the history kept for each.           *)
(*   op, id, cursor_copy, is_hot, is_active, vals: the call's locals;      *)
(*   c0: the cursor immediately before the call;                           *)
(*   direct: no closure-taking call was made in the body so far;           *)
(*   evs: the space and shape calls made directly in the body so far;      *)
(*   hevs: the shapes drawn while this was the innermost open hitbox;      *)
(*   hat: the cursor at which each of them was drawn.                      *)
(***************************************************************************)
Frame(op, id, cursor_copy, hot, active, vals) ==
    [op |-> op, id |-> id, cursor_copy |-> cursor_copy, is_hot |-> hot,
     is_active |-> active, vals |-> vals,
     c0 |-> cursor, direct |-> TRUE, evs |-> <<>>, hevs |-> <<>>, hat |-> <<>>]

ShapeEv(w, h) == [k |-> "shape", w |-> w, h |-> h]
SpaceEv(n) == [k |-> "space", w |-> n, h |-> 0]

\* Index in ctl of the innermost open hitbox call, 0 if there is none.
InnermostHitbox ==
    LET S == {i \in 1..Len(ctl) : ctl[i].op = "hitbox"}
    IN IF S = {} THEN 0 ELSE CHOOSE i \in S : \A j \in S : j <= i

LogShape(w, h) ==
    [i \in 1..Len(ctl) |->
        [ctl[i] EXCEPT
            !.evs = IF i = Len(ctl) THEN Append(@, ShapeEv(w, h)) ELSE @,
            !.hevs = IF i = InnermostHitbox THEN Append(@, <<w, h>>) ELSE @,
            !.hat = IF i = InnermostHitbox THEN Append(@, cursor) ELSE @]]

LogSpace(n) ==
    IF ctl = <<>> THEN ctl
    ELSE SetLast(ctl, [Last(ctl) EXCEPT !.evs = Append(@, SpaceEv(n))])

LogOpen(frame) ==
    Append(IF ctl = <<>> THEN ctl ELSE SetLast(ctl, [Last(ctl) EXCEPT !.direct = FALSE]),
           frame)

\* The open calls c after a shape of size (w, h) drawn at the cursor at.
LogShapeIn(c, w, h, at) ==
    [i \in 1..Len(c) |->
        [c[i] EXCEPT
            !.evs = IF i = Len(c) THEN Append(@, ShapeEv(w, h)) ELSE @,
            !.hevs = IF i = InnermostHitbox THEN Append(@, <<w, h>>) ELSE @,
            !.hat = IF i = InnermostHitbox THEN Append(@, at) ELSE @]]

Returned(ext) == <<[f |-> Last(ctl), ext |-> ext]>>

\* A step other than the return of a closure-taking call: its name, what it
\* saw and what it gave.
Answer(r) == <<[f |-> r, ext |-> 0]>>

\* The render callback is running and may make another Renderer call.
InFrame(lim) == pc = "FrameBuilding" /\ calls < lim
CanOpen(lim) == InFrame(lim) /\ Len(ctl) < MaxDepth
Closing(op) == pc = "FrameBuilding" /\ ctl # <<>> /\ Last(ctl).op = op

\* The event loop hands the next event to its closure: no frame is being
\* built, nothing panicked, and the loop was not told to exit.
Delivering == pc = "Idle" /\ control_flow # "Exit"

\* History of the events of one interval between frames: the characters and
\* keys delivered, in order, the mouse buttons released, and the characters
\* and keys together in the order of their delivery.
NothingArrived == [input |-> <<>>, keys |-> <<>>, released |-> {}, events |-> <<>>]

\* A wall-clock time in nanoseconds, wraps * 2^32 + rem with rem < 2^32 (the
\* values used below have rem < 2^31).
Nanos(wraps, rem) == [wraps |-> wraps, rem |-> rem]

\* as_nanos() as u32: the cast of a u128 keeps the low 32 bits.
as_u32(n) == n.rem

(***************************************************************************)
(* Initial state: Renderer::new                                            *)
(***************************************************************************)
Init ==
    /\ pc = "Idle"
    /\ cursor = <<0, 0>>
    /\ viewport = <<0, 0>>
    /\ layout_stack = <<Col(0, 0, 0)>>
    /\ hitbox_stack = <<>>
    /\ hitboxes = EmptyMap
    /\ hot_id = None
    /\ active_id = None
    /\ mouse = [x |-> 0, y |-> 0, lmouseclick |-> FALSE, rmouseclick |-> FALSE]
    /\ animations = EmptyMap
    /\ now = 0
    /\ ctl = <<>>
    /\ calls = 0
    /\ ret = None
    /\ order = <<>>
    /\ drawn = EmptyMap
    /\ prev_order = <<>>
    /\ prev_table = EmptyMap
    /\ probe = None
    /\ input = <<>>
    /\ keys = <<>>
    /\ arrived = NothingArrived
    /\ consumed = {}
    /\ anim_hist = EmptyMap
    /\ frame_time = 0
    /\ frame_nanos = Nanos(0, 0)
    /\ last_frame = None
    /\ hot_start = None
    /\ value = <<>>
    /\ control_flow = "Poll"
    /\ dispatched = None

(***************************************************************************)
(* Shapes and space                                                        *)
(***************************************************************************)
\* Renderer::rectangle
Rectangle(lim, size) ==
    /\ InFrame(lim)
    /\ handle_new_shape(size[1], size[2])
    /\ ctl' = LogShape(size[1], size[2])
    /\ calls' = calls + 1
    /\ ret' = None
    /\ UNCHANGED <<pc, viewport, hitboxes, hot_id, active_id, mouse, animations,
                   now, order, drawn, prev_order, prev_table, probe, app, queues, anim_hist, frame_vars>>

\* Renderer::texture
Texture(lim, size) ==
    /\ InFrame(lim)
    /\ handle_new_shape(size[1], size[2])
    /\ ctl' = LogShape(size[1], size[2])
    /\ calls' = calls + 1
    /\ ret' = None
    /\ UNCHANGED <<pc, viewport, hitboxes, hot_id, active_id, mouse, animations,
                   now, order, drawn, prev_order, prev_table, probe, app, queues, anim_hist, frame_vars>>

space_cursor_swapped(size) ==
    IF Last(layout_stack).tag = "Row"
    THEN <<cursor[1], cursor[2] + size>>
    ELSE <<cursor[1] + size, cursor[2]>>

space_cursor_both(size) == <<cursor[1] + size, cursor[2] + size>>

space_cursor(size) ==
    IF Last(layout_stack).tag = "Row"
    THEN <<cursor[1] + size, cursor[2]>>
    ELSE <<cursor[1], cursor[2] + size>>

\* Renderer::space
Space(lim, size) ==
    /\ InFrame(lim)
    /\ cursor' = space_cursor(size)
    /\ ctl' = LogSpace(size)
    /\ calls' = calls + 1
    /\ ret' = Answer([op |-> "space", n |-> size])
    /\ UNCHANGED <<pc, viewport, layout_stack, hitbox_stack, hitboxes, hot_id,
                   active_id, mouse, animations, now, order, drawn,
                   prev_order, prev_table, probe, app, queues, anim_hist, frame_vars>>

(***************************************************************************)
(* row, col                                                                *)
(***************************************************************************)
\* Renderer::row, up to the call of the closure.
RowOpen(lim) ==
    /\ CanOpen(lim)
    /\ layout_stack' = Append(layout_stack, Row(0, cursor[1], cursor[2]))
    /\ ctl' = LogOpen(Frame("row", 0, cursor, FALSE, FALSE, <<>>))
    /\ calls' = calls + 1
    /\ ret' = None
    /\ UNCHANGED <<pc, cursor, viewport, hitbox_stack, hitboxes, hot_id, active_id,
                   mouse, animations, now, order, drawn, prev_order, prev_table,
                   probe, app, queues, anim_hist, frame_vars>>

grow_parent(stack, extent) ==
    LET parent == Last(stack)
    IN IF parent.tag = "Row"
       THEN SetLast(stack, [parent EXCEPT !.height = RowHeight(@, extent)])
       ELSE SetLast(stack, [parent EXCEPT !.width = ColWidth(@, extent)])

RowClose_fold ==
    /\ Closing("row")
    /\ LET top == Last(layout_stack)
       IN /\ layout_stack' = grow_parent(Pop(layout_stack), top.height)
          /\ cursor' = IF top.tag = "Row"
                       THEN <<top.x, top.y + top.height>>
                       ELSE cursor
          /\ ret' = Returned(IF top.tag = "Row" THEN top.height ELSE top.width)
    /\ ctl' = Pop(ctl)
    /\ UNCHANGED <<pc, viewport, hitbox_stack, hitboxes, hot_id, active_id, mouse,
                   animations, now, calls, order, drawn, prev_order, prev_table,
                   probe, app, queues, anim_hist, frame_vars>>

\* Renderer::row, after the closure returned.
RowClose ==
    /\ Closing("row")
    /\ LET top == Last(layout_stack)
       IN /\ layout_stack' = Pop(layout_stack)
          /\ cursor' = IF top.tag = "Row"
                       THEN <<top.x, top.y + top.height>>
                       ELSE cursor
          /\ ret' = Returned(IF top.tag = "Row" THEN top.height ELSE top.width)
    /\ ctl' = Pop(ctl)
    /\ UNCHANGED <<pc, viewport, hitbox_stack, hitboxes, hot_id, active_id, mouse,
                   animations, now, calls, order, drawn, prev_order, prev_table,
                   probe, app, queues, anim_hist, frame_vars>>

col_enter_nopush(stack) == stack

\* The layout stack when the closure of col starts.
col_enter(stack) == Append(stack, Col(0, cursor[1], cursor[2]))

\* Renderer::col, up to the call of the closure.
ColOpen(lim) ==
    /\ CanOpen(lim)
    /\ layout_stack' = col_enter(layout_stack)
    /\ ctl' = LogOpen(Frame("col", 0, cursor, FALSE, FALSE, <<>>))
    /\ calls' = calls + 1
    /\ ret' = None
    /\ UNCHANGED <<pc, cursor, viewport, hitbox_stack, hitboxes, hot_id, active_id,
                   mouse, animations, now, order, drawn, prev_order, prev_table,
                   probe, app, queues, anim_hist, frame_vars>>

\* Renderer::col, after the closure returned.
ColClose ==
    /\ Closing("col")
    /\ LET top == Last(layout_stack)
       IN /\ layout_stack' = Pop(layout_stack)
          /\ cursor' = IF top.tag = "Col"
                       THEN <<top.x + top.width, top.y>>
                       ELSE cursor
          /\ ret' = Returned(IF top.tag = "Col" THEN top.width ELSE top.height)
    /\ ctl' = Pop(ctl)
    /\ UNCHANGED <<pc, viewport, hitbox_stack, hitboxes, hot_id, active_id, mouse,
                   animations, now, calls, order, drawn, prev_order, prev_table,
                   probe, app, queues, anim_hist, frame_vars>>

(***************************************************************************)
(* hitbox                                                                  *)
(***************************************************************************)
\* Renderer::hitbox, up to the call of the closure.
HitboxOpen(lim, id) ==
    /\ CanOpen(lim)
    /\ hitbox_stack' = Append(hitbox_stack, Hitbox(cursor[1], cursor[2], 0, 0))
    /\ ctl' = LogOpen(Frame("hitbox", id, cursor, is_hot(id), is_active(id), <<>>))
    /\ calls' = calls + 1
    /\ ret' = None
    /\ UNCHANGED <<pc, cursor, viewport, layout_stack, hitboxes, hot_id, active_id,
                   mouse, animations, now, order, drawn, prev_order, prev_table,
                   probe, app, queues, anim_hist, frame_vars>>

\* Renderer::hitbox, after the closure returned.
HitboxClose ==
    /\ Closing("hitbox")
    /\ LET id == Last(ctl).id
           hb == Last(hitbox_stack)
       IN /\ hitboxes' = Insert(hitboxes, id, hb)
          /\ hitbox_stack' = Pop(hitbox_stack)
          /\ order' = IF \E i \in 1..Len(order) : order[i] = id
                      THEN order ELSE Append(order, id)
          /\ drawn' = Insert(drawn, id, hb)
    /\ ret' = Returned(0)
    /\ ctl' = Pop(ctl)
    /\ UNCHANGED <<pc, cursor, viewport, layout_stack, hot_id, active_id, mouse,
                   animations, now, calls, prev_order, prev_table, probe, app, queues, anim_hist, frame_vars>>

(***************************************************************************)
(* set_cursor, move_cursor                                                 *)
(***************************************************************************)
set_cursor_enter_width(x, y) ==
    <<IF x < 0 THEN viewport[1] + x ELSE x,
      IF y < 0 THEN viewport[1] + y ELSE y>>

\* The cursor when the closure of set_cursor(x, y, f) starts.
set_cursor_enter(x, y) ==
    <<IF x < 0 THEN viewport[1] + x ELSE x,
      IF y < 0 THEN viewport[2] + y ELSE y>>

set_cursor_exit_x(cursor_copy) == <<cursor_copy[1], cursor[2]>>

\* The cursor when set_cursor returns.
set_cursor_exit(cursor_copy) == cursor_copy

\* Renderer::set_cursor, up to the call of the closure.
SetCursorOpen(lim, x, y) ==
    /\ CanOpen(lim)
    /\ cursor' = set_cursor_enter(x, y)
    /\ ctl' = LogOpen(Frame("set_cursor", 0, cursor, FALSE, FALSE, <<x, y>>))
    /\ calls' = calls + 1
    /\ ret' = None
    /\ UNCHANGED <<pc, viewport, layout_stack, hitbox_stack, hitboxes, hot_id,
                   active_id, mouse, animations, now, order, drawn, prev_order,
                   prev_table, probe, app, queues, anim_hist, frame_vars>>

\* Renderer::set_cursor, after the closure returned.
SetCursorClose ==
    /\ Closing("set_cursor")
    /\ cursor' = set_cursor_exit(Last(ctl).cursor_copy)
    /\ ret' = Returned(0)
    /\ ctl' = Pop(ctl)
    /\ UNCHANGED <<pc, viewport, layout_stack, hitbox_stack, hitboxes, hot_id,
                   active_id, mouse, animations, now, calls, order, drawn,
                   prev_order, prev_table, probe, app, queues, anim_hist, frame_vars>>

\* Renderer::move_cursor, up to the call of the closure.
MoveCursorOpen(lim, x, y) ==
    /\ CanOpen(lim)
    /\ cursor' = <<cursor[1] + x, cursor[2] + y>>
    /\ ctl' = LogOpen(Frame("move_cursor", 0, cursor, FALSE, FALSE, <<>>))
    /\ calls' = calls + 1
    /\ ret' = None
    /\ UNCHANGED <<pc, viewport, layout_stack, hitbox_stack, hitboxes, hot_id,
                   active_id, mouse, animations, now, order, drawn, prev_order,
                   prev_table, probe, app, queues, anim_hist, frame_vars>>

\* Renderer::move_cursor, after the closure returned.
MoveCursorClose ==
    /\ Closing("move_cursor")
    /\ cursor' = Last(ctl).cursor_copy
    /\ ret' = Returned(0)
    /\ ctl' = Pop(ctl)
    /\ UNCHANGED <<pc, viewport, layout_stack, hitbox_stack, hitboxes, hot_id,
                   active_id, mouse, animations, now, calls, order, drawn,
                   prev_order, prev_table, probe, app, queues, anim_hist, frame_vars>>

(***************************************************************************)
(* label (src/src/primitives/label.rs)                                     *)
(***************************************************************************)
Padding(left, top, right, bottom) ==
    [left |-> left, right |-> right, top |-> top, bottom |-> bottom]

LabelStyle(padding, min_width) == [padding |-> padding, min_width |-> min_width]

\* Texts of the labels, at the font size 18 of Renderer::new, and their styles.
Texts == {[width |-> 30, height |-> 18, drawn |-> 18],
          [width |-> 9, height |-> 18, drawn |-> 14]}
LabelStyles == {LabelStyle(Padding(0, 0, 0, 0), 0),
                LabelStyle(Padding(5, 5, 5, 5), 0),
                LabelStyle(Padding(2, 6, 0, 1), 40)}

\* handle_new_shape on a layout stack: the stack after a shape.
grow_layout(stack, shape_width, shape_height) ==
    LET top == Last(stack)
    IN IF top.tag = "Row"
       THEN SetLast(stack, [top EXCEPT !.height = RowHeight(@, shape_height)])
       ELSE SetLast(stack, [top EXCEPT !.width = ColWidth(@, shape_width)])

\* handle_new_shape on a hitbox stack: the stack after a shape.
grow_hitbox_stack(stack, shape_width, shape_height) ==
    IF stack # <<>>
    THEN SetLast(stack, HitboxGrow(Last(stack), shape_width, shape_height))
    ELSE stack

\* Renderer::label.  text.width and text.height are what calculate_text_size
\* returns for the text, text.drawn the height Renderer::text measures while
\* it draws the glyphs.  The rectangle is drawn at the cursor; the text is
\* drawn inside set_cursor(text_x, text_y, ..), at the cursor set_cursor gives
\* its closure, and reports its extent there; then the cursor is restored.
Label(lim, text, style) ==
    /\ InFrame(lim)
    /\ LET x == cursor[1]
           y == cursor[2]
           rect_width == (IF text.width > style.min_width
                          THEN text.width ELSE style.min_width)
                         + style.padding.left + style.padding.right
           rect_height == text.height + style.padding.top + style.padding.bottom - 3
           text_x == x + style.padding.left
           text_y == y + style.padding.top - 4
           origin == set_cursor_enter(text_x, text_y)
       IN /\ cursor' = set_cursor_exit(shape_cursor(rect_width, rect_height))
          /\ layout_stack' = grow_layout(shape_layout(rect_width, rect_height),
                                         text.width, text.drawn)
          /\ hitbox_stack' = grow_hitbox_stack(
                                 shape_hitbox_stack(rect_width, rect_height),
                                 text.width, text.drawn)
          /\ ctl' = LogShapeIn(LogShape(rect_width, rect_height),
                               text.width, text.drawn, origin)
          /\ ret' = Answer([op |-> "label", at |-> cursor, style |-> style,
                            layout |-> Last(layout_stack).tag,
                            rect |-> <<rect_width, rect_height>>,
                            origin |-> origin])
    /\ calls' = calls + 1
    /\ UNCHANGED <<pc, viewport, hitboxes, hot_id, active_id, mouse, animations,
                   now, order, drawn, prev_order, prev_table, probe, app, queues,
                   anim_hist, frame_vars>>

(***************************************************************************)
(* animate                                                                 *)
(***************************************************************************)
\* History of an animation id: the duration and transitions of the first
\* animate call with the id, the time of that call or of the last reset (since),
\* whether a query since then found the duration elapsed (seen), and whether
\* since is a reset and what the reset found (reset: "none", "running", "done").
FirstCall(duration, transitions) ==
    [duration |-> duration, transitions |-> transitions, since |-> now,
     seen |-> FALSE, reset |-> "none"]

get_or_create_anew(table, id, duration, transitions) ==
    Animation_new(duration, transitions)

\* The animation Renderer::animate queries: the one stored under id, or a new
\* one when none is stored.
get_or_create(table, id, duration, transitions) ==
    IF id \in DOMAIN table
    THEN table[id]
    ELSE Animation_new(duration, transitions)

arity_ok_atleast(result, N) == Len(result) >= N

\* result.try_into() of a Vec into [f32; N] succeeds.
arity_ok(result, N) == Len(result) = N

\* Renderer::animate, up to the call of the closure.  N is the length of
\* transitions; result.try_into().unwrap() panics when the stored animation
\* returns another number of values.
AnimateOpen(lim, id, duration, transitions) ==
    /\ CanOpen(lim)
    /\ LET a == get_or_create(animations, id, duration, transitions)
           r == Animation_animate(a)
           h == IF id \in DOMAIN anim_hist
                THEN anim_hist[id]
                ELSE FirstCall(duration, transitions)
           t == now - h.since
       IN /\ animations' = Insert(animations, id, r.anim)
          /\ anim_hist' = Insert(anim_hist, id, [h EXCEPT !.seen = @ \/ t >= h.duration])
          /\ ret' = Answer([op |-> "query", id |-> id, t |-> t, h |-> h,
                            done_before |-> a.done, result |-> r.result,
                            N |-> Len(transitions), depth |-> Len(ctl),
                            duration |-> duration, transitions |-> transitions])
          /\ IF arity_ok(r.result, Len(transitions))
             THEN /\ ctl' = LogOpen(Frame("animate", id, cursor, FALSE, FALSE, r.result))
                  /\ calls' = calls + 1
                  /\ pc' = pc
             ELSE /\ pc' = "Panicked"
                  /\ UNCHANGED <<ctl, calls>>
    /\ UNCHANGED <<cursor, viewport, layout_stack, hitbox_stack, hitboxes, hot_id,
                   active_id, mouse, now, order, drawn, prev_order, prev_table,
                   probe, app, queues, frame_vars>>

\* Renderer::animate, after the closure returned.
AnimateClose ==
    /\ Closing("animate")
    /\ ret' = Returned(0)
    /\ ctl' = Pop(ctl)
    /\ UNCHANGED <<pc, cursor, viewport, layout_stack, hitbox_stack, hitboxes,
                   hot_id, active_id, mouse, animations, now, calls, order, drawn,
                   prev_order, prev_table, probe, app, queues, anim_hist, frame_vars>>

reset_animation_create(table, id) ==
    IF id \in DOMAIN table
    THEN [table EXCEPT ![id] = Animation_reset(@)]
    ELSE Insert(table, id, Animation_new(0, <<>>))

\* Renderer::reset_animation: the animations afterwards.
reset_animation(table, id) ==
    IF id \in DOMAIN table
    THEN [table EXCEPT ![id] = Animation_reset(@)]
    ELSE table

\* Renderer::reset_animation
ResetAnimation(lim, id) ==
    /\ InFrame(lim)
    /\ animations' = reset_animation(animations, id)
    /\ anim_hist' = IF id \in DOMAIN anim_hist
                    THEN LET h == anim_hist[id]
                         IN [anim_hist EXCEPT ![id] =
                                [h EXCEPT !.since = now, !.seen = FALSE,
                                          !.reset = IF h.seen THEN "done" ELSE "running"]]
                    ELSE anim_hist
    /\ ret' = Answer([op |-> "reset_animation", id |-> id,
                      existed |-> id \in DOMAIN anim_hist])
    /\ calls' = calls + 1
    /\ UNCHANGED <<pc, cursor, viewport, layout_stack, hitbox_stack, hitboxes,
                   hot_id, active_id, mouse, now, ctl, order, drawn, prev_order,
                   prev_table, probe, app, queues, frame_vars>>

\* Renderer::fps as a function of frame_time.
fps(time) == IF time = 0 THEN 0 ELSE 1000000000 \div time

\* The render callback calls Renderer::fps.
Fps(lim) ==
    /\ InFrame(lim)
    /\ ret' = Answer([op |-> "fps", val |-> fps(frame_time)])
    /\ calls' = calls + 1
    /\ UNCHANGED <<pc, cursor, viewport, layout_stack, hitbox_stack, hitboxes,
                   hot_id, active_id, mouse, animations, now, ctl, order, drawn,
                   prev_order, prev_table, probe, app, queues, anim_hist, frame_vars>>

\* n is later than m.
Later(n, m) == n.wraps > m.wraps \/ (n.wraps = m.wraps /\ n.rem > m.rem)

\* Wall-clock time passes while the frame is built: frame_start.elapsed()
\* has grown to n.
FrameTook(n) ==
    /\ pc = "FrameBuilding"
    /\ Later(n, frame_nanos)
    /\ frame_nanos' = n
    /\ ret' = None
    /\ UNCHANGED <<pc, cursor, viewport, layout_stack, hitbox_stack, hitboxes,
                   hot_id, active_id, mouse, animations, now, ctl, calls, order,
                   drawn, prev_order, prev_table, probe, app, queues, anim_hist,
                   frame_time, last_frame, hot_start>>

\* The render callback assigns the public field Renderer.active_id.
SetActive(lim, v) ==
    /\ InFrame(lim)
    /\ active_id' = v
    /\ ret' = Answer([op |-> "set_active", v |-> v])
    /\ calls' = calls + 1
    /\ UNCHANGED <<pc, cursor, viewport, layout_stack, hitbox_stack, hitboxes,
                   hot_id, mouse, animations, now, ctl, order, drawn, prev_order,
                   prev_table, probe, app, queues, anim_hist, frame_vars>>

\* The monotonic clock advances between two readings (Instant::now, elapsed).
Elapse(dt) ==
    /\ pc # "Panicked"
    /\ now + dt <= MaxTime
    /\ now' = now + dt
    /\ ret' = None
    /\ UNCHANGED <<pc, cursor, viewport, layout_stack, hitbox_stack, hitboxes,
                   hot_id, active_id, mouse, animations, ctl, calls, order, drawn,
                   prev_order, prev_table, probe, app, queues, anim_hist, frame_vars>>

(***************************************************************************)
(* The frame: ApplicationWrapper::call_render                              *)
(***************************************************************************)
clear_hitboxes_noop(table) == table

\* Renderer::clear_hitboxes
clear_hitboxes(table) == EmptyMap

frame_hot_id_after_clear ==
    get_hit(clear_hitboxes(hitboxes), mouse.x, mouse.y)

\* The values call_render can assign to hot_id: get_hit on the table as the
\* previous frame left it, before clear_hitboxes.
frame_hot_id == get_hit(hitboxes, mouse.x, mouse.y)

clear_clicks_none(m) == m

\* call_render: both click flags are reset.
clear_clicks(m) == [m EXCEPT !.lmouseclick = FALSE, !.rmouseclick = FALSE]

BeginFrame_reset_active(hist) ==
    /\ pc = "Idle"
    /\ cursor' = <<0, 0>>
    /\ \E size \in WindowSizes : viewport' = size
    /\ hot_id' \in frame_hot_id
    /\ hot_start' = hot_id'
    /\ mouse' = clear_clicks(mouse)
    /\ hitboxes' = clear_hitboxes(hitboxes)
    /\ frame_nanos' = Nanos(0, 0)
    /\ prev_order' = IF hist THEN order ELSE <<>>
    /\ prev_table' = IF hist THEN drawn ELSE EmptyMap
    /\ order' = <<>>
    /\ drawn' = EmptyMap
    /\ calls' = 0
    /\ ret' = Answer([op |-> "begin", table |-> hitboxes, mouse |-> mouse])
    /\ pc' = "FrameBuilding"
    /\ active_id' = None
    /\ UNCHANGED <<layout_stack, hitbox_stack, animations, now, ctl,
                   probe, app, queues, anim_hist, frame_time, last_frame>>

\* call_render up to the call of render: clear, next_frame, hot_id, the click
\* flags, clear_hitboxes.  hist: whether the history of the previous frame's
\* hitboxes is kept (prev_order, prev_table).
BeginFrame(hist) ==
    /\ Delivering
    /\ cursor' = <<0, 0>>
    /\ \E size \in WindowSizes : viewport' = size
    /\ hot_id' \in frame_hot_id
    /\ hot_start' = hot_id'
    /\ mouse' = clear_clicks(mouse)
    /\ hitboxes' = clear_hitboxes(hitboxes)
    /\ frame_nanos' = Nanos(0, 0)
    /\ prev_order' = IF hist THEN order ELSE <<>>
    /\ prev_table' = IF hist THEN drawn ELSE EmptyMap
    /\ order' = <<>>
    /\ drawn' = EmptyMap
    /\ calls' = 0
    /\ ret' = Answer([op |-> "begin", table |-> hitboxes, mouse |-> mouse])
    /\ pc' = "FrameBuilding"
    /\ UNCHANGED <<layout_stack, hitbox_stack, active_id, animations, now, ctl,
                   probe, app, queues, anim_hist, frame_time, last_frame>>

done_queue_keep(queue) == queue

\* Option::unwrap_or
unwrap_or(opt, default) == IF opt # None THEN opt[1] ELSE default

control_flow_after_arm(arm, on_event) == arm

\* The closure given to EventLoop::run: the ControlFlow it leaves when the
\* arm of the event evaluates to arm and on_event returns on_event.
control_flow_after(arm, on_event) ==
    IF on_event # None THEN on_event[1] ELSE arm

\* What the closure did with an event: the event, what the handler its arm
\* called returned (None when the arm calls none) and what on_event returned.
Handled(event, handler, on_event) ==
    Some([event |-> event, handler |-> handler, on_event |-> on_event])

\* Renderer::done: what Vec::clear leaves of a queue.
done_queue(queue) == <<>>

\* call_render after render returned: done; then the rest of the closure for
\* Event::MainEventsCleared.
EndFrame(on_event) ==
    /\ pc = "FrameBuilding"
    /\ ctl = <<>>
    /\ input' = done_queue(input)
    /\ keys' = done_queue(keys)
    /\ arrived' = NothingArrived
    /\ consumed' = {}
    /\ pc' = "Idle"
    /\ calls' = 0
    /\ frame_time' = as_u32(frame_nanos)
    /\ last_frame' = Some(frame_nanos)
    /\ ret' = Answer([op |-> "done", input |-> input, keys |-> keys])
    /\ control_flow' = control_flow_after("Poll", on_event)
    /\ dispatched' = Handled("MainEventsCleared", None, on_event)
    /\ UNCHANGED <<cursor, viewport, layout_stack, hitbox_stack, hitboxes, hot_id,
                   active_id, mouse, animations, now, ctl, order, drawn,
                   prev_order, prev_table, probe, value, anim_hist, frame_nanos,
                   hot_start>>

(***************************************************************************)
(* The event queues: consume_input, consume_keys                           *)
(***************************************************************************)
take_keep(queue) == [ret |-> queue, left |-> queue]

\* std::mem::take on a Vec: the value returned and the value left behind.
take(queue) == [ret |-> queue, left |-> <<>>]

\* Renderer::consume_input
ConsumeInput(lim) ==
    /\ InFrame(lim)
    /\ input' = take(input).left
    /\ ret' = Answer([op |-> "consume_input", val |-> take(input).ret,
                      before |-> input, first |-> "input" \notin consumed])
    /\ consumed' = consumed \cup {"input"}
    /\ calls' = calls + 1
    /\ UNCHANGED <<pc, cursor, viewport, layout_stack, hitbox_stack, hitboxes,
                   hot_id, active_id, mouse, animations, now, ctl, order, drawn,
                   prev_order, prev_table, probe, app, keys, arrived, anim_hist, frame_vars>>

\* Renderer::consume_keys
ConsumeKeys(lim) ==
    /\ InFrame(lim)
    /\ keys' = take(keys).left
    /\ ret' = Answer([op |-> "consume_keys", val |-> take(keys).ret,
                      before |-> keys, first |-> "keys" \notin consumed])
    /\ consumed' = consumed \cup {"keys"}
    /\ calls' = calls + 1
    /\ UNCHANGED <<pc, cursor, viewport, layout_stack, hitbox_stack, hitboxes,
                   hot_id, active_id, mouse, animations, now, ctl, order, drawn,
                   prev_order, prev_table, probe, app, input, arrived, anim_hist, frame_vars>>

(***************************************************************************)
(* text_input (src/src/primitives/textinput.rs)                            *)
(***************************************************************************)
TextInputStyle(padding, min_width) == [padding |-> padding, min_width |-> min_width]

\* impl Into<LabelStyle> for TextInputStyle
into_LabelStyle(style) == LabelStyle(style.padding, style.min_width)

\* top + bottom padding is odd, so that (height - cursor_height) / 2.0 is a
\* whole number, and the label is at least 2 wide.
TextInputStyles == {TextInputStyle(Padding(2, 6, 0, 1), 40)}

\* char::is_alphanumeric and char::is_whitespace, on the characters used.
is_alphanumeric(c) == c \in Alphanumeric
is_whitespace(c) == c \in Whitespace

accepts_any(c) == TRUE

\* The test of the loop over the consumed characters.
accepts(c) == is_alphanumeric(c) \/ is_whitespace(c)

RECURSIVE typed(_, _)
\* for c in r.consume_input(): the value after the loop.
typed(v, chars) ==
    IF chars = <<>> THEN v
    ELSE typed(IF accepts(Head(chars)) THEN Append(v, Head(chars)) ELSE v,
               Tail(chars))

\* String::pop: the string afterwards.
pop(v) == IF v = <<>> THEN v ELSE SubSeq(v, 1, Len(v) - 1)

RECURSIVE erased(_, _)
\* for k in r.consume_keys(): the value after the loop.
erased(v, ks) ==
    IF ks = <<>> THEN v
    ELSE erased(IF Head(ks) = "Backspace" THEN pop(v) ELSE v, Tail(ks))

\* calculate_text_size and the height Renderer::text measures, for a value in
\* a font whose glyphs advance 9 and reach the font size 18.
text_size(v) ==
    [width |-> 9 * Len(v), height |-> 18, drawn |-> IF v = <<>> THEN 0 ELSE 18]

\* handle_new_shape on st = [cursor, layout_stack, hitbox_stack].
shape_in(st, shape_width, shape_height) ==
    [cursor |-> IF Last(st.layout_stack).tag = "Row"
                THEN <<st.cursor[1] + shape_width, st.cursor[2]>>
                ELSE <<st.cursor[1], st.cursor[2] + shape_height>>,
     layout_stack |-> grow_layout(st.layout_stack, shape_width, shape_height),
     hitbox_stack |-> grow_hitbox_stack(st.hitbox_stack, shape_width, shape_height)]

\* Renderer::label on st: the state afterwards and the triple it returns.
label_in(st, text, style) ==
    LET x == st.cursor[1]
        y == st.cursor[2]
        rect_width == (IF text.width > style.min_width
                       THEN text.width ELSE style.min_width)
                      + style.padding.left + style.padding.right
        rect_height == text.height + style.padding.top + style.padding.bottom - 3
        text_x == x + style.padding.left
        text_y == y + style.padding.top - 4
        s1 == shape_in(st, rect_width, rect_height)
        s2 == shape_in([s1 EXCEPT !.cursor = set_cursor_enter(text_x, text_y)],
                       text.width, text.drawn)
    IN [st |-> [s2 EXCEPT !.cursor = s1.cursor],
        ret |-> <<rect_width, rect_height, text_x + text.width>>]

\* Renderer::text_input on the application's text field: hitbox(id, ..) with
\* the label, the consumption of the queues when id is active, and the caret,
\* which is drawn when blink holds (less than 500 ms into the second since
\* last_typed_at).  The caret is 1.5 wide in the source and 2 here: it is
\* drawn after a label at least 2 wide and inside set_cursor, so with either
\* width it widens neither the layout nor the hitbox and leaves the cursor.
TextInput(lim, id, style, blink) ==
    /\ InFrame(lim)
    /\ Len(value) + Len(input) <= MaxValue
    /\ LET hot == is_hot(id)
           active == is_active(id)
           y == cursor[2]
           s0 == [cursor |-> cursor, layout_stack |-> layout_stack,
                  hitbox_stack |-> Append(hitbox_stack,
                                          Hitbox(cursor[1], cursor[2], 0, 0))]
           l == label_in(s0, text_size(value), into_LabelStyle(style))
           height == l.ret[2]
           text_end_x == l.ret[3]
           cursor_height == 18
           origin == set_cursor_enter(text_end_x + 2,
                                      y + (height - cursor_height) \div 2)
           s1 == IF active /\ blink
                 THEN [shape_in([l.st EXCEPT !.cursor = origin], 2, cursor_height)
                          EXCEPT !.cursor = l.st.cursor]
                 ELSE l.st
       IN /\ value' = IF active
                       THEN erased(typed(value, take(input).ret), take(keys).ret)
                       ELSE value
          /\ input' = IF active THEN take(input).left ELSE input
          /\ keys' = IF active THEN take(keys).left ELSE keys
          /\ consumed' = IF active THEN consumed \cup {"input", "keys"} ELSE consumed
          /\ cursor' = s1.cursor
          /\ layout_stack' = s1.layout_stack
          /\ hitbox_stack' = Pop(s1.hitbox_stack)
          /\ hitboxes' = Insert(hitboxes, id, Last(s1.hitbox_stack))
          /\ order' = IF \E i \in 1..Len(order) : order[i] = id
                      THEN order ELSE Append(order, id)
          /\ drawn' = Insert(drawn, id, Last(s1.hitbox_stack))
          /\ ret' = Answer([op |-> "text_input", id |-> id, hot |-> hot,
                            active |-> active, before |-> value,
                            first |-> consumed = {}, events |-> arrived.events])
    /\ ctl' = IF ctl = <<>> THEN ctl
              ELSE SetLast(ctl, [Last(ctl) EXCEPT !.direct = FALSE])
    /\ calls' = calls + 1
    /\ UNCHANGED <<pc, viewport, hot_id, active_id, mouse, animations, now,
                   prev_order, prev_table, probe, control_flow, dispatched,
                   arrived, anim_hist, frame_vars>>

(***************************************************************************)
(* Events between frames: ApplicationWrapper::run                          *)
(***************************************************************************)
CursorMoved_any(position, on_event) ==
    /\ pc \in {"Idle", "FrameBuilding"}
    /\ mouse' = [mouse EXCEPT !.x = position[1], !.y = position[2]]
    /\ ret' = None
    /\ control_flow' = control_flow_after("Poll", on_event)
    /\ dispatched' = Handled("CursorMoved", None, on_event)
    /\ UNCHANGED <<pc, cursor, viewport, layout_stack, hitbox_stack, hitboxes,
                   hot_id, active_id, animations, now, ctl, calls, order, drawn,
                   prev_order, prev_table, probe, value, queues, anim_hist, frame_vars>>

\* WindowEvent::CursorMoved.  The closure given to EventLoop::run handles one
\* event at a time and call_render runs inside it, so an event is handled only
\* between frames.
CursorMoved(position, on_event) ==
    /\ Delivering
    /\ mouse' = [mouse EXCEPT !.x = position[1], !.y = position[2]]
    /\ ret' = None
    /\ control_flow' = control_flow_after("Poll", on_event)
    /\ dispatched' = Handled("CursorMoved", None, on_event)
    /\ UNCHANGED <<pc, cursor, viewport, layout_stack, hitbox_stack, hitboxes,
                   hot_id, active_id, animations, now, ctl, calls, order, drawn,
                   prev_order, prev_table, probe, value, queues, anim_hist, frame_vars>>

\* WindowEvent::MouseInput with ElementState::Released: the click flags
\* afterwards.  The arms of Left and of Right both assign lmouseclick; the
\* release of any other button changes nothing.
released(m, button) ==
    CASE button = "Left" -> [m EXCEPT !.lmouseclick = TRUE]
      [] button = "Right" -> [m EXCEPT !.lmouseclick = TRUE]
      [] OTHER -> m

\* WindowEvent::MouseInput with ElementState::Released
MouseReleased(button, on_event) ==
    /\ Delivering
    /\ control_flow' = control_flow_after("Poll", on_event)
    /\ dispatched' = Handled("MouseInput", None, on_event)
    /\ mouse' = released(mouse, button)
    /\ arrived' = [arrived EXCEPT !.released = @ \cup {button}]
    /\ ret' = Answer([op |-> "released", button |-> button, before |-> mouse])
    /\ UNCHANGED <<pc, cursor, viewport, layout_stack, hitbox_stack, hitboxes,
                   hot_id, active_id, animations, now, ctl, calls, order, drawn,
                   prev_order, prev_table, probe, value, input, keys, consumed,
                   anim_hist, frame_vars>>

push_front(queue, v) == <<v>> \o queue

\* Vec::push
push(queue, v) == Append(queue, v)

\* WindowEvent::ReceivedCharacter; on_text_input returns handler.
ReceivedCharacter(c, handler, on_event) ==
    /\ Delivering
    /\ Len(input) < MaxQueue
    /\ input' = push(input, c)
    /\ arrived' = [arrived EXCEPT !.input = Append(@, c),
                                  !.events = Append(@, [k |-> "char", v |-> c])]
    /\ ret' = None
    /\ control_flow' = control_flow_after(unwrap_or(handler, "Poll"), on_event)
    /\ dispatched' = Handled("ReceivedCharacter", handler, on_event)
    /\ UNCHANGED <<pc, cursor, viewport, layout_stack, hitbox_stack, hitboxes,
                   hot_id, active_id, mouse, animations, now, ctl, calls, order,
                   drawn, prev_order, prev_table, probe, value, keys, consumed,
                   anim_hist, frame_vars>>

\* impl From<VirtualKeyCode> for Key: the Key of a key code, None for a code
\* that reaches the arm x => todo!(..), which panics.
Key_from(code) ==
    CASE code = "Back" -> Some("Backspace")
      [] code = "Return" -> Some("Enter")
      [] OTHER -> None

\* WindowEvent::KeyboardInput.  virtual_keycode is the Option of the event;
\* handler is what on_key_down (Pressed) or on_key_up (Released) returns when
\* it is called.  Key::from runs for every Some(code), before the state of
\* the key is looked at.
KeyboardInput(state, virtual_keycode, handler, on_event) ==
    /\ Delivering
    /\ ret' = None
    /\ dispatched' = Handled("KeyboardInput", handler, on_event)
    /\ IF virtual_keycode = None
       THEN /\ handler = None
            /\ control_flow' = control_flow_after("Poll", on_event)
            /\ UNCHANGED <<pc, keys, arrived>>
       ELSE IF Key_from(virtual_keycode[1]) = None
       THEN /\ handler = None /\ on_event = None
            /\ pc' = "Panicked"
            /\ UNCHANGED <<control_flow, keys, arrived>>
       ELSE LET key == Key_from(virtual_keycode[1])[1]
            IN /\ control_flow' = control_flow_after(unwrap_or(handler, "Poll"), on_event)
               /\ pc' = pc
               /\ IF state = "Pressed"
                  THEN /\ Len(keys) < MaxQueue
                       /\ keys' = push(keys, key)
                       /\ arrived' = [arrived EXCEPT
                                         !.keys = Append(@, key),
                                         !.events = Append(@, [k |-> "key", v |-> key])]
                  ELSE UNCHANGED <<keys, arrived>>
    /\ UNCHANGED <<cursor, viewport, layout_stack, hitbox_stack, hitboxes,
                   hot_id, active_id, mouse, animations, now, ctl, calls, order,
                   drawn, prev_order, prev_table, probe, value, input, consumed,
                   anim_hist, frame_vars>>

arm_poll(event, handler) == "Poll"

\* The value of the match for an event of PlainEvents: Exit for
\* CloseRequested, what on_mouse_down returns (or Poll) for a pressed mouse
\* button, Poll for Resized, ModifiersChanged and every event without an arm
\* of its own.
arm(event, handler) ==
    CASE event = "CloseRequested" -> "Exit"
      [] event = "MousePressed" -> unwrap_or(handler, "Poll")
      [] OTHER -> "Poll"

\* The closure given to EventLoop::run, for an event of PlainEvents.
\* Renderer.modifiers, which ModifiersChanged assigns, is read by no Renderer
\* call and is not part of the state.  Only MousePressed calls a handler.
Dispatch(event, handler, on_event) ==
    /\ Delivering
    /\ handler # None => event = "MousePressed"
    /\ control_flow' = control_flow_after(arm(event, handler), on_event)
    /\ dispatched' = Handled(event, handler, on_event)
    /\ ret' = None
    /\ UNCHANGED <<pc, cursor, viewport, layout_stack, hitbox_stack, hitboxes,
                   hot_id, active_id, mouse, animations, now, ctl, calls, order,
                   drawn, prev_order, prev_table, probe, value, queues,
                   anim_hist, frame_vars>>

(***************************************************************************)
(* Specifications                                                          *)
(***************************************************************************)
\* An application whose render callback makes any of the Renderer calls; the
\* pointer stays where it is.
Next ==
    \/ BeginFrame(FALSE)
    \/ EndFrame(None)
    \/ \E size \in ShapeSizes : Rectangle(MaxCalls, size)
    \/ \E size \in ShapeSizes : Texture(MaxCalls, size)
    \/ \E size \in Spaces : Space(MaxCalls, size)
    \/ RowOpen(MaxCalls)
    \/ RowClose
    \/ ColOpen(MaxCalls)
    \/ ColClose
    \/ \E id \in Ids : HitboxOpen(MaxCalls, id)
    \/ HitboxClose
    \/ \E a \in SetCursorArgs : SetCursorOpen(MaxCalls, a[1], a[2])
    \/ SetCursorClose
    \/ \E a \in MoveCursorArgs : MoveCursorOpen(MaxCalls, a[1], a[2])
    \/ MoveCursorClose
    \/ \E id \in AnimIds, a \in AnimArgs : AnimateOpen(MaxCalls, id, a[1], a[2])
    \/ AnimateClose

Spec == Init /\ [][Next]_vars

\* An application whose render callback only flows shapes and space in rows
\* and columns.
NextFlow ==
    \/ BeginFrame(FALSE)
    \/ EndFrame(None)
    \/ \E size \in ShapeSizes : Rectangle(MaxFlowCalls, size)
    \/ \E size \in ShapeSizes : Texture(MaxFlowCalls, size)
    \/ \E size \in Spaces : Space(MaxFlowCalls, size)
    \/ RowOpen(MaxFlowCalls)
    \/ RowClose
    \/ ColOpen(MaxFlowCalls)
    \/ ColClose

SpecFlow == Init /\ [][NextFlow]_vars

\* An application whose render callback draws rectangles in hitboxes, with the
\* pointer moving between frames.
NextHit ==
    \/ BeginFrame(TRUE)
    \/ EndFrame(None)
    \/ \E position \in Points : CursorMoved(position, None)
    \/ \E size \in HitSizes : Rectangle(MaxHitCalls, size)
    \/ \E id \in Ids : HitboxOpen(MaxHitCalls, id)
    \/ HitboxClose

SpecHit == Init /\ [][NextHit]_vars

\* An application whose render callback relocates the cursor and draws
\* rectangles.
NextCursor ==
    \/ BeginFrame(FALSE)
    \/ EndFrame(None)
    \/ \E size \in HitSizes : Rectangle(MaxCursorCalls, size)
    \/ \E x \in CursorCoords, y \in CursorCoords : SetCursorOpen(MaxCursorCalls, x, y)
    \/ SetCursorClose
    \/ \E a \in MoveCursorArgs : MoveCursorOpen(MaxCursorCalls, a[1], a[2])
    \/ MoveCursorClose

SpecCursor == Init /\ [][NextCursor]_vars

\* An application whose render callback reads the event queues, with
\* characters and keys arriving between frames.
NextInput ==
    \/ BeginFrame(FALSE)
    \/ EndFrame(None)
    \/ \E c \in Chars : ReceivedCharacter(c, None, None)
    \/ \E code \in VirtualKeyCodes : KeyboardInput("Pressed", Some(code), None, None)
    \/ ConsumeInput(MaxInputCalls)
    \/ ConsumeKeys(MaxInputCalls)

SpecInput == Init /\ [][NextInput]_vars

\* An application whose render callback queries and resets animations while
\* time passes.
NextAnim ==
    \/ BeginFrame(FALSE)
    \/ EndFrame(None)
    \/ \E dt \in TimeSteps : Elapse(dt)
    \/ \E id \in AnimIds, a \in AnimSpecArgs : AnimateOpen(MaxAnimCalls, id, a[1], a[2])
    \/ AnimateClose
    \/ \E id \in ResetIds : ResetAnimation(MaxAnimCalls, id)

SpecAnim == Init /\ [][NextAnim]_vars

\* An application whose render callback draws rectangles in hitboxes, with the
\* pointer moving and mouse buttons released between frames.
NextMouse ==
    \/ BeginFrame(TRUE)
    \/ EndFrame(None)
    \/ \E position \in Points : CursorMoved(position, None)
    \/ \E button \in Buttons : MouseReleased(button, None)
    \/ \E size \in HitSizes : Rectangle(MaxMouseCalls, size)
    \/ \E id \in Ids : HitboxOpen(MaxMouseCalls, id)
    \/ HitboxClose

SpecMouse == Init /\ [][NextMouse]_vars

\* An application whose render callback makes any of the Renderer calls and
\* assigns active_id, with characters arriving between frames.
NextActive ==
    \/ BeginFrame(FALSE)
    \/ EndFrame(None)
    \/ ReceivedCharacter("a", None, None)
    \/ \E v \in {None} \cup {Some(id) : id \in Ids} : SetActive(MaxActiveCalls, v)
    \/ \E size \in HitSizes : Rectangle(MaxActiveCalls, size)
    \/ \E size \in HitSizes : Texture(MaxActiveCalls, size)
    \/ \E size \in Spaces : Space(MaxActiveCalls, size)
    \/ RowOpen(MaxActiveCalls)
    \/ RowClose
    \/ ColOpen(MaxActiveCalls)
    \/ ColClose
    \/ \E id \in Ids : HitboxOpen(MaxActiveCalls, id)
    \/ HitboxClose
    \/ \E a \in SetCursorArgs : SetCursorOpen(MaxActiveCalls, a[1], a[2])
    \/ SetCursorClose
    \/ \E a \in MoveCursorArgs : MoveCursorOpen(MaxActiveCalls, a[1], a[2])
    \/ MoveCursorClose
    \/ \E id \in AnimIds, a \in AnimArgs : AnimateOpen(MaxActiveCalls, id, a[1], a[2])
    \/ AnimateClose
    \/ ConsumeInput(MaxActiveCalls)
    \/ ConsumeKeys(MaxActiveCalls)

SpecActive == Init /\ [][NextActive]_vars

\* An application whose render callback asks for the frame rate, with frames
\* that take different times.
NextFps ==
    \/ BeginFrame(FALSE)
    \/ EndFrame(None)
    \/ \E n \in FrameNanos : FrameTook(n)
    \/ Fps(MaxFpsCalls)

SpecFps == Init /\ [][NextFps]_vars

\* An application whose render callback draws labels in rows and columns.
NextLabel ==
    \/ BeginFrame(FALSE)
    \/ EndFrame(None)
    \/ \E text \in Texts, style \in LabelStyles : Label(MaxLabelCalls, text, style)
    \/ \E size \in Spaces : Space(MaxLabelCalls, size)
    \/ RowOpen(MaxLabelCalls)
    \/ RowClose

SpecLabel == Init /\ [][NextLabel]_vars

\* An application whose render callback draws its text field and assigns
\* active_id, with at most MaxQueue characters and keys arriving between two
\* frames.
NextText ==
    \/ BeginFrame(FALSE)
    \/ EndFrame(None)
    \/ \E c \in TextChars :
          Len(arrived.events) < MaxQueue /\ ReceivedCharacter(c, None, None)
    \/ \E code \in TextKeyCodes :
          /\ Len(arrived.events) < MaxQueue
          /\ KeyboardInput("Pressed", Some(code), None, None)
    \/ \E v \in {None} \cup {Some(id) : id \in Ids} : SetActive(MaxTextCalls, v)
    \/ \E id \in TextIds, style \in TextInputStyles, blink \in BOOLEAN :
          TextInput(MaxTextCalls, id, style, blink)

SpecText == Init /\ [][NextText]_vars

\* An application whose handlers return any directive or none, with every
\* kind of event arriving between frames that draw nothing.
NextEvents ==
    \/ BeginFrame(FALSE)
    \/ \E on_event \in Returns : EndFrame(on_event)
    \/ \E event \in PlainEvents, handler \in Returns, on_event \in Returns :
          Dispatch(event, handler, on_event)
    \/ \E position \in EventPoints, on_event \in Returns :
          CursorMoved(position, on_event)
    \/ \E button \in EventButtons, on_event \in Returns :
          MouseReleased(button, on_event)
    \/ \E c \in EventChars, handler \in Returns, on_event \in Returns :
          ReceivedCharacter(c, handler, on_event)
    \/ \E state \in KeyStates, code \in EventKeyCodes,
          handler \in Returns, on_event \in Returns :
          KeyboardInput(state, code, handler, on_event)

SpecEvents == Init /\ [][NextEvents]_vars

\* Hitboxes and positions contains_pos is applied to.
ProbeBoxes ==
    {Hitbox(x, y, w, h) : x \in {0, 5}, y \in {0, 5}, w \in {0, 20}, h \in {0, 20}}
ProbeCoords == {-1, 0, 4, 5, 6, 10, 19, 20, 21, 24, 25, 26}

\* Hitbox::contains_pos applied to a hitbox and a position.
ContainsPos(hb, x, y) ==
    /\ probe' = Some([hb |-> hb, x |-> x, y |-> y, res |-> contains_pos(hb, x, y)])
    /\ UNCHANGED <<pc, cursor, viewport, layout_stack, hitbox_stack, hitboxes,
                   hot_id, active_id, mouse, animations, now, ctl, calls, ret,
                   order, drawn, prev_order, prev_table, app, queues, anim_hist,
                   frame_vars>>

NextContains ==
    \E hb \in ProbeBoxes, x \in ProbeCoords, y \in ProbeCoords : ContainsPos(hb, x, y)

SpecContains == Init /\ [][NextContains]_vars

(***************************************************************************)
(* Properties                                                              *)
(***************************************************************************)
\* The largest element of a finite set of non-negative numbers, 0 if empty.
MaxOf(S) == IF S = {} THEN 0 ELSE CHOOSE m \in S : \A n \in S : n <= m

RECURSIVE SumSeq(_)
SumSeq(s) == IF s = <<>> THEN 0 ELSE s[1] + SumSeq(Tail(s))

\* Heights and widths of the shapes among the calls evs.
ShapeHeights(evs) == {evs[i].h : i \in {j \in 1..Len(evs) : evs[j].k = "shape"}}
ShapeWidths(evs) == {evs[i].w : i \in {j \in 1..Len(evs) : evs[j].k = "shape"}}
\* What the calls evs advance a row's cursor by: widths of shapes and spaces.
Advance(evs) == SumSeq([i \in 1..Len(evs) |-> evs[i].w])

\* Inclusive containment of a position in a hitbox.
Inside(hb, x, y) ==
    /\ hb.x <= x /\ x <= hb.x + hb.width
    /\ hb.y <= y /\ y <= hb.y + hb.height

SeqIds(s) == {s[i] : i \in 1..Len(s)}

\* The call that returned in the last step was op.
JustReturned(op) == ret # None /\ ret[1].f.op = op

\* C1: when row() returns and its body made only space and shape calls of its
\* own, the row's accumulated height is the maximum of the shapes' heights (0
\* without shapes) and the cursor is (x0, y0 + that maximum), (x0, y0) being the
\* cursor at which the row was opened.
C1_RowHeightIsMax ==
    (JustReturned("row") /\ ret[1].f.direct) =>
        LET f == ret[1].f
            max_height == MaxOf(ShapeHeights(f.evs))
        IN /\ ret[1].ext = max_height
           /\ cursor = <<f.c0[1], f.c0[2] + max_height>>

C1_Witness ==
    /\ JustReturned("row") /\ ret[1].f.direct
    /\ Cardinality(ShapeHeights(ret[1].f.evs)) >= 2
    /\ \E i \in 1..Len(ret[1].f.evs) : ret[1].f.evs[i].k = "space"
    /\ ret[1].f.c0 # <<0, 0>>

\* C2: when col() returns and its body made only space and shape calls of its
\* own, the column's accumulated width is the maximum of the shapes' widths and
\* the cursor is (x0 + that maximum, y0).
C2_ColWidthIsMax ==
    (JustReturned("col") /\ ret[1].f.direct) =>
        LET f == ret[1].f
            max_width == MaxOf(ShapeWidths(f.evs))
        IN /\ ret[1].ext = max_width
           /\ cursor = <<f.c0[1] + max_width, f.c0[2]>>

C2_Witness ==
    /\ JustReturned("col") /\ ret[1].f.direct
    /\ Cardinality(ShapeWidths(ret[1].f.evs)) >= 2
    /\ \E i \in 1..Len(ret[1].f.evs) : ret[1].f.evs[i].k = "space"
    /\ ret[1].f.c0 # <<0, 0>>

\* Three rectangles of width 20 and height h separated by space(10).
ThreeRectangles(h) ==
    <<ShapeEv(20, h), SpaceEv(10), ShapeEv(20, h), SpaceEv(10), ShapeEv(20, h)>>

\* C3: while the body of a row has made only space and shape calls of its own,
\* cursor x is the x the row was opened at plus the widths of the shapes plus
\* the space amounts, and cursor y is unchanged; after three rectangles of width
\* 20 separated by space(10) in a row opened at x = 0, cursor x is 80 and the
\* row's height is the rectangles' height.
C3_RowAdvance ==
    (pc = "FrameBuilding" /\ ctl # <<>> /\ Last(ctl).op = "row" /\ Last(ctl).direct) =>
        LET f == Last(ctl)
        IN /\ cursor = <<f.c0[1] + Advance(f.evs), f.c0[2]>>
           /\ \A h \in {10, 20} :
                (f.evs = ThreeRectangles(h) /\ f.c0[1] = 0) =>
                    (cursor[1] = 80 /\ Last(layout_stack).height = h)

C3_Witness ==
    /\ pc = "FrameBuilding" /\ ctl # <<>>
    /\ Last(ctl).op = "row" /\ Last(ctl).direct
    /\ Last(ctl).evs = ThreeRectangles(20) /\ Last(ctl).c0[1] = 0
    /\ cursor[1] = 80

\* C4: the layout stack always holds at least one context, its bottom element
\* is the root column pushed by Renderer::new, and above it there is exactly one
\* context per open row or col call.
C4_RootNeverPopped ==
    /\ Len(layout_stack) >= 1
    /\ layout_stack[1].tag = "Col"
    /\ layout_stack[1].x = 0 /\ layout_stack[1].y = 0
    /\ Len(layout_stack) =
         1 + Cardinality({i \in 1..Len(ctl) : ctl[i].op \in {"row", "col"}})

C4_Witness ==
    /\ Len(layout_stack) = 3
    /\ layout_stack[1].width > 0
    /\ 7 \in DOMAIN animations

\* C5: during a frame, hot_id is never the id of a hitbox that was finalized in
\* this frame and was not finalized in the previous frame.
C5_NewHitboxNotHot ==
    pc = "FrameBuilding" =>
        \A A \in SeqIds(order) : A \notin SeqIds(prev_order) => hot_id # Some(A)

C5_Witness ==
    /\ pc = "FrameBuilding"
    /\ \E A \in SeqIds(order) :
          /\ A \notin SeqIds(prev_order)
          /\ Inside(drawn[A], mouse.x, mouse.y)
          /\ drawn[A].width > 0
    /\ prev_order # <<>>

\* Ids of the hitboxes finalized in the previous frame that contain the pointer.
PrevHit == {id \in DOMAIN prev_table : Inside(prev_table[id], mouse.x, mouse.y)}

\* C6: during a frame, hot_id is A when A is the only hitbox finalized in the
\* previous frame that contains the pointer, and None when no hitbox finalized
\* in the previous frame contains it.
C6_HotFromPreviousFrame ==
    pc = "FrameBuilding" =>
        /\ PrevHit = {} => hot_id = None
        /\ \A A \in PrevHit : PrevHit = {A} => hot_id = Some(A)

C6_Witness ==
    /\ pc = "FrameBuilding"
    /\ Cardinality(DOMAIN prev_table) = 2
    /\ \E A \in PrevHit : PrevHit = {A} /\ hot_id = Some(A)
    /\ order # <<>>

\* C7: when hitbox(id, body) returns, the entry stored under id has the cursor
\* at which the call was made as x and y, and as width and height the maxima of
\* the widths and heights of the shapes drawn while it was the innermost open
\* hitbox (0 without shapes); one rectangle of size (20, 20) at cursor (5, 5)
\* gives {x: 5, y: 5, w: 20, h: 20}.
C7_HitboxExtent ==
    JustReturned("hitbox") =>
        LET f == ret[1].f
            ws == {f.hevs[i][1] : i \in 1..Len(f.hevs)}
            hs == {f.hevs[i][2] : i \in 1..Len(f.hevs)}
        IN /\ f.id \in DOMAIN hitboxes
           /\ hitboxes[f.id] = Hitbox(f.c0[1], f.c0[2], MaxOf(ws), MaxOf(hs))
           /\ (f.c0 = <<5, 5>> /\ f.hevs = << <<20, 20>> >>) =>
                 hitboxes[f.id] = [x |-> 5, y |-> 5, width |-> 20, height |-> 20]

C7_Witness ==
    /\ JustReturned("hitbox")
    /\ ret[1].f.id = 1
    /\ ret[1].f.c0 = <<5, 5>>
    /\ ret[1].f.hevs = << <<20, 20>> >>

\* C8: contains_pos is true exactly for the positions with x <= px <= x + width
\* and y <= py <= y + height; for the hitbox {5, 5, 20, 20}, (5, 5) and (25, 25)
\* are contained and no position with px > 25 is.
C8_ContainsInclusive ==
    probe # None =>
        LET p == probe[1]
        IN /\ p.res <=> Inside(p.hb, p.x, p.y)
           /\ p.hb = [x |-> 5, y |-> 5, width |-> 20, height |-> 20] =>
                /\ (<<p.x, p.y>> \in {<<5, 5>>, <<25, 25>>}) => p.res
                /\ p.x > 25 => ~p.res

C8_Witness ==
    /\ probe # None
    /\ probe[1].hb = [x |-> 5, y |-> 5, width |-> 20, height |-> 20]
    /\ probe[1].x = 25 /\ probe[1].y = 25
    /\ probe[1].res

\* The id among S that was inserted first in the previous frame.
FirstInserted(S) ==
    prev_order[CHOOSE i \in 1..Len(prev_order) :
                  /\ prev_order[i] \in S
                  /\ \A j \in 1..(i - 1) : prev_order[j] \notin S]

\* C9: during a frame, when several hitboxes finalized in the previous frame
\* contain the pointer, hot_id is the one of them that was inserted first.
C9_FirstInsertedWins ==
    (pc = "FrameBuilding" /\ PrevHit # {}) => hot_id = Some(FirstInserted(PrevHit))

\* C10: when set_cursor or move_cursor returns, the cursor is what it was
\* immediately before the call.
C10_CursorRestored ==
    (JustReturned("set_cursor") \/ JustReturned("move_cursor")) =>
        cursor = ret[1].f.c0

C10_Witness ==
    /\ JustReturned("set_cursor")
    /\ ~ret[1].f.direct
    /\ ret[1].f.c0 # <<0, 0>>

\* Indexes in ctl of the open set_cursor and move_cursor calls.
Relocations == {i \in 1..Len(ctl) : ctl[i].op \in {"set_cursor", "move_cursor"}}

\* C11: when a panic ends the body of set_cursor or move_cursor, the cursor is
\* the one saved on entry of the outermost of the calls the panic unwinds.
C11_RestoredOnPanic ==
    (pc = "Panicked" /\ Relocations # {}) =>
        cursor = ctl[CHOOSE i \in Relocations : \A j \in Relocations : i <= j].cursor_copy

\* The call opened last is op and its body has not made a call yet.
BodyStarts(op) ==
    /\ pc = "FrameBuilding" /\ ctl # <<>>
    /\ Last(ctl).op = op /\ Last(ctl).direct /\ Last(ctl).evs = <<>>

\* C12: when the body of set_cursor(x, y, body) starts, the cursor is (X, Y)
\* with X = viewport width + x if x < 0 and x otherwise, and Y = viewport
\* height + y if y < 0 and y otherwise.
C12_SetCursorEdges ==
    BodyStarts("set_cursor") =>
        LET x == Last(ctl).vals[1]
            y == Last(ctl).vals[2]
        IN /\ cursor[1] = (IF x < 0 THEN viewport[1] + x ELSE x)
           /\ cursor[2] = (IF y < 0 THEN viewport[2] + y ELSE y)

C12_Witness ==
    /\ BodyStarts("set_cursor")
    /\ Last(ctl).vals[1] >= 0 /\ Last(ctl).vals[2] < 0
    /\ Last(ctl).c0 # <<0, 0>>

\* C13: when a frame ends both queues are empty, and between frames the queues
\* hold exactly the characters and keys delivered since the last frame ended,
\* so nothing queued before a frame is there for a consumer of the next frame.
C13_QueuesClearedAtFrameEnd ==
    /\ JustReturned("done") => (input = <<>> /\ keys = <<>>)
    /\ pc = "Idle" => (input = arrived.input /\ keys = arrived.keys)

C13_Witness ==
    /\ JustReturned("done")
    /\ ret[1].f.input # <<>> /\ ret[1].f.keys # <<>>

\* C14: consume_input and consume_keys return the whole queue and leave it
\* empty; a call that is not the first of its frame returns the empty sequence.
C14_ConsumeTakesAll ==
    /\ JustReturned("consume_input") =>
           /\ ret[1].f.val = ret[1].f.before
           /\ input = <<>>
           /\ ~ret[1].f.first => ret[1].f.val = <<>>
    /\ JustReturned("consume_keys") =>
           /\ ret[1].f.val = ret[1].f.before
           /\ keys = <<>>
           /\ ~ret[1].f.first => ret[1].f.val = <<>>

C14_Witness ==
    /\ JustReturned("consume_input")
    /\ ~ret[1].f.first
    /\ arrived.input # <<>>

\* C15: the first consume_input call of a frame returns the characters
\* delivered since the previous frame ended, each once and in arrival order.
C15_FirstConsumeGetsArrivals ==
    (JustReturned("consume_input") /\ ret[1].f.first) =>
        ret[1].f.val = arrived.input

C15_Witness ==
    /\ JustReturned("consume_input") /\ ret[1].f.first
    /\ Len(ret[1].f.val) = 2
    /\ ret[1].f.val[1] # ret[1].f.val[2]

Min(a, b) == IF a <= b THEN a ELSE b

\* The from values and the end values of a sequence of transitions.
FromValues(ts) == [i \in 1..Len(ts) |-> ts[i].from]
EndValues(ts) == [i \in 1..Len(ts) |-> ts[i].to]

\* animate just queried an animation: the query's record.
Query == ret[1].f

C17_DoneSticks ==
    /\ \A id \in DOMAIN anim_hist :
           anim_hist[id].seen => (id \in DOMAIN animations /\ animations[id].done)
    /\ (JustReturned("query") /\ Query.h.seen) =>
           Query.result = EndValues(Query.h.transitions)

C17_Witness ==
    /\ JustReturned("query")
    /\ Query.h.seen
    /\ Query.h.duration > 0
    /\ Query.t > Query.h.duration
    /\ Len(Query.h.transitions) = 2

\* reset_animation just returned for an id that animate was called with before.
ResetDone ==
    (JustReturned("reset_animation") /\ ret[1].f.existed) =>
        LET id == ret[1].f.id
        IN /\ id \in DOMAIN animations
           /\ ~animations[id].done
           /\ animations[id].start_time = now

renderer_state ==
    <<cursor, viewport, layout_stack, hitbox_stack, hitboxes, hot_id, active_id,
      mouse, animations, input, keys>>

\* C19: a reset_animation call for an id that animate was never called with
\* changes nothing of the renderer: no animation is created or modified.
C19_ResetUnknownIsNoop ==
    [][(/\ ret' # None
        /\ ret'[1].f.op = "reset_animation"
        /\ ~ret'[1].f.existed) => UNCHANGED <<renderer_state, pc, now>>]_vars

C19_Witness ==
    /\ JustReturned("reset_animation")
    /\ ~ret[1].f.existed
    /\ animations # EmptyMap

\* C20: an animate call whose arity N differs from the number of transitions
\* of the first animate call with the id panics without invoking the body;
\* with equal arities the body is invoked with N values.
C20_ArityMismatchPanics ==
    JustReturned("query") =>
        IF Len(Query.h.transitions) # Query.N
        THEN pc = "Panicked" /\ Len(ctl) = Query.depth
        ELSE /\ pc = "FrameBuilding"
             /\ Len(ctl) = Query.depth + 1
             /\ Last(ctl).op = "animate" /\ Last(ctl).id = Query.id
             /\ Len(Last(ctl).vals) = Query.N

C20_Witness ==
    /\ JustReturned("query")
    /\ pc = "Panicked"
    /\ Len(Query.h.transitions) = 2
    /\ Query.N = 1

\* call_render just handed control to the render callback.
FrameStarts == JustReturned("begin")

\* The ids of the hitboxes of table that contain the position (x, y).
Under(table, x, y) == {id \in DOMAIN table : Inside(table[id], x, y)}

\* C21: when the render callback starts, the cursor is (0, 0), the hitbox table
\* is empty, both click flags are false, and hot_id is a hitbox of the table as
\* it was before it was cleared that contains the pointer, or none if no hitbox
\* of that table does.
C21_FrameStartState ==
    FrameStarts =>
        LET under == Under(ret[1].f.table, mouse.x, mouse.y)
        IN /\ cursor = <<0, 0>>
           /\ hitboxes = EmptyMap
           /\ ~mouse.lmouseclick /\ ~mouse.rmouseclick
           /\ IF under = {} THEN hot_id = None
              ELSE hot_id # None /\ hot_id[1] \in under

C21_Witness ==
    /\ FrameStarts
    /\ ret[1].f.table # EmptyMap
    /\ ret[1].f.mouse.lmouseclick
    /\ hot_id # None

\* C22: no step other than an assignment by the application changes
\* active_id, and the steps that begin and end a frame leave the animation
\* table as it is.
C22_ActiveAndAnimationsPersist ==
    [][/\ (ret' = None \/ ret'[1].f.op # "set_active") => active_id' = active_id
       /\ (ret' # None /\ ret'[1].f.op \in {"begin", "done"}) =>
              animations' = animations]_vars

C22_Witness ==
    /\ FrameStarts
    /\ active_id # None
    /\ animations # EmptyMap
    /\ input # <<>>

\* The step taken begins a frame; the step taken ends a frame.
BeginStep == ret' # None /\ ret'[1].f.op = "begin"
DoneStep == ret' # None /\ ret'[1].f.op = "done"

\* C23: the frame controller goes from Idle to FrameBuilding by the begin-frame
\* steps only and from FrameBuilding to Idle by the end-frame steps only (a
\* panic of the render callback ends the process); a frame begins only when
\* none is being built, and while one is built no event is delivered: the
\* pointer, the click flags and the record of the arrivals stay as they are.
C23_FramesAlternate ==
    [][/\ pc = "Idle" => pc' \in {"Idle", "FrameBuilding"}
       /\ pc = "FrameBuilding" => pc' \in {"FrameBuilding", "Idle", "Panicked"}
       /\ BeginStep <=> (pc = "Idle" /\ pc' = "FrameBuilding")
       /\ DoneStep <=> (pc = "FrameBuilding" /\ pc' = "Idle")
       /\ (pc = "FrameBuilding" /\ ~DoneStep) =>
              (mouse' = mouse /\ arrived' = arrived)]_vars

C23_Witness ==
    /\ FrameStarts
    /\ prev_order # <<>>
    /\ arrived.released # {}
    /\ mouse.x # 0

\* The integer quotient 1_000_000_000 / n for a time n of at least 1 ns; it is
\* 0 for every n of 2^32 ns and more.
NanosQuotient(n) == IF n.wraps > 0 THEN 0 ELSE 1000000000 \div n.rem

\* C24: fps() returns 0 while no frame has completed, and afterwards the
\* integer quotient 1_000_000_000 / n, n >= 1 being the time in nanoseconds
\* the last completed frame took.
C24_FpsQuotient ==
    JustReturned("fps") =>
        IF last_frame = None
        THEN ret[1].f.val = 0
        ELSE LET n == last_frame[1]
             IN (n.wraps > 0 \/ n.rem >= 1) => ret[1].f.val = NanosQuotient(n)

\* C25: space(n) adds n to the cursor's x when the innermost layout is a row
\* and to its y when it is a column; the other coordinate, every layout of the
\* layout stack and every open hitbox stay as they are.
C25_SpaceMovesMainAxisOnly ==
    [][(ret' # None /\ ret'[1].f.op = "space") =>
          LET n == ret'[1].f.n
          IN /\ IF Last(layout_stack).tag = "Row"
                THEN cursor' = <<cursor[1] + n, cursor[2]>>
                ELSE cursor' = <<cursor[1], cursor[2] + n>>
             /\ UNCHANGED <<layout_stack, hitbox_stack, hitboxes>>]_vars

C25_Witness ==
    /\ JustReturned("space")
    /\ Last(layout_stack).tag = "Col"
    /\ Last(layout_stack).width > 0
    /\ hitbox_stack # <<>>
    /\ Last(hitbox_stack).width > 0

\* C26: while a frame is built hot_id is the value call_render resolved at
\* the start of the frame, and the is_hot flag of every open hitbox(id, body)
\* call is (that value = id).
C26_HotFixedInFrame ==
    pc = "FrameBuilding" =>
        /\ hot_id = hot_start
        /\ \A i \in 1..Len(ctl) :
               ctl[i].op = "hitbox" => (ctl[i].is_hot <=> hot_start = Some(ctl[i].id))

C26_Witness ==
    /\ pc = "FrameBuilding" /\ ctl # <<>>
    /\ Last(ctl).op = "hitbox"
    /\ ~Last(ctl).is_hot
    /\ Last(ctl).id \in Under(hitboxes, mouse.x, mouse.y)

\* C27: when the render callback starts after a left button was released
\* since the previous frame ended, mouse.lmouseclick is true.
C27_LeftClickObserved ==
    (FrameStarts /\ "Left" \in arrived.released) => mouse.lmouseclick

\* C28: the release of the left button sets lmouseclick and leaves rmouseclick
\* as it was, and the release of the right button sets rmouseclick and leaves
\* lmouseclick as it was.
C28_ClickFlagsSymmetric ==
    JustReturned("released") =>
        LET before == ret[1].f.before
        IN /\ ret[1].f.button = "Left" =>
                  (mouse.lmouseclick /\ mouse.rmouseclick = before.rmouseclick)
           /\ ret[1].f.button = "Right" =>
                  (mouse.rmouseclick /\ mouse.lmouseclick = before.lmouseclick)

\* C29: when hitbox(id, body) returns, every shape drawn while it was the
\* innermost open hitbox lies inside the hitbox stored for id: the shape's
\* rectangle [x, x + w] x [y, y + h] is within the hitbox's.
C29_ShapesInsideHitbox ==
    JustReturned("hitbox") =>
        LET f == ret[1].f
            hb == hitboxes[f.id]
        IN \A i \in 1..Len(f.hevs) :
              /\ hb.x <= f.hat[i][1]
              /\ f.hat[i][1] + f.hevs[i][1] <= hb.x + hb.width
              /\ hb.y <= f.hat[i][2]
              /\ f.hat[i][2] + f.hevs[i][2] <= hb.y + hb.height

\* C30: for a label(text, style) call made at cursor (x, y) the text is drawn
\* with its origin at (x + padding.left, y + padding.top - 4), and after the
\* call the cursor has advanced by the rectangle's width in a row and by its
\* height in a column, the other coordinate being as before.
C30_LabelTextOrigin ==
    JustReturned("label") =>
        LET f == ret[1].f
        IN /\ f.origin = <<f.at[1] + f.style.padding.left,
                           f.at[2] + f.style.padding.top - 4>>
           /\ cursor = IF f.layout = "Row"
                       THEN <<f.at[1] + f.rect[1], f.at[2]>>
                       ELSE <<f.at[1], f.at[2] + f.rect[2]>>

\* C31: the step in which row() or col() returns pops the call's layout and
\* changes nothing of the layouts below it nor of the open hitboxes; it sets
\* the cursor, for a row opened at (x, y) with accumulated height h to
\* (x, y + h) and for a col opened at (x, y) with accumulated width w to
\* (x + w, y).
C31_PopSetsCursorOnly ==
    [][(ret' # None /\ ret'[1].f.op \in {"row", "col"}) =>
          LET f == ret'[1].f
              extent == ret'[1].ext
          IN /\ layout_stack' = Pop(layout_stack)
             /\ UNCHANGED <<hitbox_stack, hitboxes>>
             /\ cursor' = IF f.op = "row"
                          THEN <<f.c0[1], f.c0[2] + extent>>
                          ELSE <<f.c0[1] + extent, f.c0[2]>>]_vars

C31_Witness ==
    /\ JustReturned("row")
    /\ ret[1].ext > 0
    /\ hitbox_stack # <<>>
    /\ Last(layout_stack).width = 0

\* The values a query returns for an animation of the given duration and
\* transitions, t ms after its creation or last reset, done telling whether
\* an earlier query since then found the duration elapsed.
ValuesAt(duration, transitions, t, done, result) ==
    /\ Len(result) = Len(transitions)
    /\ \A i \in 1..Len(transitions) :
           IF done \/ duration = 0
           THEN result[i] = transitions[i].to
           ELSE result[i] * duration =
                    transitions[i].from * duration
                    + (transitions[i].to - transitions[i].from) * Min(t, duration)

\* C32: every animate call returns the values of the animation the first
\* animate call with the id created, computed from that call's duration and
\* transitions and from the time since its creation or last reset, whatever
\* duration and transitions the call itself passes; the table holds that one
\* animation for the id.
C32_AnimationReused ==
    /\ JustReturned("query") =>
           ValuesAt(Query.h.duration, Query.h.transitions, Query.t, Query.h.seen,
                    Query.result)
    /\ \A id \in DOMAIN anim_hist :
           /\ id \in DOMAIN animations
           /\ animations[id].duration = anim_hist[id].duration
           /\ animations[id].transitions = anim_hist[id].transitions
           /\ animations[id].start_time = anim_hist[id].since
    /\ DOMAIN animations = DOMAIN anim_hist

C32_Witness ==
    /\ JustReturned("query")
    /\ pc = "FrameBuilding"
    /\ Query.h.duration = 4 /\ Query.duration = 0
    /\ Query.h.transitions = Query.transitions
    /\ Query.t = 1
    /\ Query.result = <<10>>

\* C35: no key press or release event aborts the application (the claim
\* adds: a key with a logical Key is queued on press and dispatched, a key
\* without one is ignored with control flow Poll).
C35_KeyEventsNeverAbort ==
    (dispatched # None /\ dispatched[1].event = "KeyboardInput") => pc # "Panicked"

\* C36: after every event the closure handled, the control flow is the
\* directive on_event returned when it returned one; otherwise it is Exit
\* for CloseRequested and, for every other event, the directive the event's
\* handler returned, or Poll when no handler was called or it returned none.
C36_OnEventOverrides ==
    (dispatched # None /\ pc # "Panicked") =>
        LET d == dispatched[1]
        IN control_flow =
              IF d.on_event # None THEN d.on_event[1]
              ELSE IF d.event = "CloseRequested" THEN "Exit"
              ELSE IF d.handler # None THEN d.handler[1]
              ELSE "Poll"

C36_Witness ==
    /\ dispatched # None
    /\ dispatched[1].event = "CloseRequested"
    /\ dispatched[1].on_event = Some("Wait")
    /\ control_flow = "Wait"

RECURSIVE InOrder(_, _)
\* The value after the delivered characters and keys were applied to v one
\* by one.
InOrder(v, events) ==
    IF events = <<>> THEN v
    ELSE LET e == Head(events)
             w == IF e.k = "char"
                  THEN IF e.v \in Alphanumeric \cup Whitespace THEN Append(v, e.v) ELSE v
                  ELSE IF e.v = "Backspace" /\ v # <<>>
                       THEN SubSeq(v, 1, Len(v) - 1) ELSE v
         IN InOrder(w, Tail(events))

\* C33: when the frame's first reader of the queues is a text_input whose id
\* is active, the value afterwards is the value before with the characters
\* and Backspace presses delivered since the previous frame applied in the
\* order of their delivery.
C33_AppliedInDeliveryOrder ==
    (JustReturned("text_input") /\ ret[1].f.active /\ ret[1].f.first) =>
        value = InOrder(ret[1].f.before, ret[1].f.events)

\* C34: a text_input step whose id is active_id appends the queued
\* characters that are alphanumeric or whitespace, in order, then removes one
\* character from the end for every queued Backspace (none from an empty
\* value), and leaves both queues empty; a text_input step whose id is not
\* active_id changes neither the value nor the queues, and no other step
\* changes the value.
C34_OnlyActiveConsumes ==
    [][IF ret' # None /\ ret'[1].f.op = "text_input"
       THEN LET kept == SelectSeq(input, LAMBDA c : c \in Alphanumeric \cup Whitespace)
                n == Len(SelectSeq(keys, LAMBDA k : k = "Backspace"))
                all == value \o kept
            IN IF active_id = Some(ret'[1].f.id)
               THEN /\ value' = SubSeq(all, 1, IF Len(all) > n THEN Len(all) - n ELSE 0)
                    /\ input' = <<>>
                    /\ keys' = <<>>
               ELSE UNCHANGED <<value, input, keys>>
       ELSE value' = value]_vars

C34_Witness ==
    /\ JustReturned("text_input")
    /\ ret[1].f.active
    /\ ret[1].f.before = <<"a">>
    /\ ret[1].f.events = <<[k |-> "char", v |-> " "], [k |-> "key", v |-> "Backspace"]>>
    /\ value = <<"a">>

====
